---- MODULE Spec2Model ----
(***************************************************************************)
(* A model of the two SVG generators of pycon-generator:                   *)
(*   src/diagonal_pattern_generator.py  (DiagonalPatternGenerator)         *)
(*   src/random_svg_icon_generator.py   (RandomSVGIconGenerator, main)     *)
(*                                                                         *)
(* Both scripts draw from Python's process-wide random stream.  The stream *)
(* is a deterministic generator: its state is the variable rng, a draw is  *)
(* a function of rng and advances it, and random.seed(s) sets it to a      *)
(* state that depends on s alone.  The standard library's generator is     *)
(* modelled by a small linear congruential generator of RngBits bits; the  *)
(* state the stream is in when a script is entered is arbitrary.           *)
(*                                                                         *)
(* Floats are modelled exactly as rationals with a stated denominator.     *)
(* None is modelled as the empty set and a given value v as {v}.           *)
(***************************************************************************)
EXTENDS Integers, Sequences, FiniteSets, TLC

VARIABLES
    pc,            \* position of the running script
    rng,           \* state of the process-wide random stream
    width, height, \* self.width, self.height
    dwg,           \* the svgwrite.Drawing under construction: its elements in order
    files,         \* the files written so far, in order: [filename, content]
    stdout,        \* the lines printed so far
    err,           \* the exception that ended the script, or "none"
    filename,      \* generate_*'s filename argument (the index of the call)
    calls,         \* log of the generate_* calls that returned
    \* the diagonal generator
    tile_count, random_seed, color_left, color_right, grid_x, grid_y, toggles,
    \* the icon generator
    args, max_colors, colors, palette0, shapes_arg, num_shapes, shapes_done

vars == <<pc, rng, width, height, dwg, files, stdout, err, filename, calls,
          tile_count, random_seed, color_left, color_right, grid_x, grid_y, toggles,
          args, max_colors, colors, palette0, shapes_arg, num_shapes, shapes_done>>

diagVars == <<tile_count, random_seed, color_left, color_right, grid_x, grid_y, toggles>>
iconVars == <<args, max_colors, colors, palette0, shapes_arg, num_shapes, shapes_done>>

(***************************************************************************)
(* Bounds of the model.                                                    *)
(***************************************************************************)
RngBits == 6        \* width of the modelled generator's state
MaxTiles == 2       \* largest tile count passed to generate_pattern
MaxSeed == 1        \* seeds passed are 0..MaxSeed
MaxShapesArg == 2   \* largest explicit shape count passed to generate_icon
MaxIcons == 2       \* largest --num-icons passed to the icon script


Seeds == 0 .. MaxSeed
None == {}
Some(v) == {v}
Value(opt) == CHOOSE v \in opt : TRUE

(***************************************************************************)
(* The random module.                                                      *)
(***************************************************************************)
RngMod == 2 ^ RngBits
\* random.seed(s): the state depends on the seed alone.
SeedState(s) == (7 * s + 1) % RngMod

\* the state after one draw
Advance(r) == (5 * r + 3) % RngMod

\* the state after n draws
RECURSIVE AdvanceN(_, _)
AdvanceN(r, n) == IF n = 0 THEN r ELSE AdvanceN(Advance(r), n - 1)

\* random.randint(lo, hi) drawn in state r, for lo <= hi: lo + floor(u * (hi - lo + 1))
\* where u = r / RngMod is the uniform draw in [0, 1).
RandInt(r, lo, hi) == lo + ((r * (hi - lo + 1)) \div RngMod)

\* random.randint raises ValueError on an empty range.
EmptyRange(lo, hi) == hi < lo

(***************************************************************************)
(* Hex encoding '#{:02x}{:02x}{:02x}' of three channels in 0..255.         *)
(***************************************************************************)
HexDigit == <<"0", "1", "2", "3", "4", "5", "6", "7",
              "8", "9", "a", "b", "c", "d", "e", "f">>
Hex2(c) == HexDigit[(c \div 16) + 1] \o HexDigit[(c % 16) + 1]
HexColor(rgb) == "#" \o Hex2(rgb[1]) \o Hex2(rgb[2]) \o Hex2(rgb[3])

(***************************************************************************)
(* DiagonalPatternGenerator                                                *)
(***************************************************************************)
\* colorsys.hsv_to_rgb on (h % 360) / 360, s / 100, b / 100, each channel
\* then int(c * 255): the sector is i = floor(6 h), the fraction f = fn / 60.
\* The arithmetic is exact where the code's is in floats: a channel may differ
\* by 1 from the code's where the exact value is a whole number.
HsvChannels(h, s, b) ==
    LET hd == h % 360
        i  == (hd \div 60) % 6
        fn == hd % 60
        v  == (255 * b) \div 100
        p  == (255 * b * (100 - s)) \div 10000
        q  == (255 * b * (6000 - s * fn)) \div 600000
        t  == (255 * b * (6000 - s * (60 - fn))) \div 600000
    IN  IF s = 0 THEN <<v, v, v>>
        ELSE CASE i = 0 -> <<v, t, p>>
               [] i = 1 -> <<q, v, p>>
               [] i = 2 -> <<p, v, t>>
               [] i = 3 -> <<p, q, v>>
               [] i = 4 -> <<t, p, v>>
               [] OTHER -> <<v, p, q>>

hsb_to_rgb(h, s, b) == HexColor(HsvChannels(h, s, b))

\* generate_random_color, drawn from state r: three draws, then the conversion.
generate_random_color(r) ==
    LET hue        == RandInt(r, 0, 360)
        saturation == RandInt(Advance(r), 60, 100)
        brightness == RandInt(AdvanceN(r, 2), 40, 90)
    IN  hsb_to_rgb(hue, saturation, brightness)

\* A coordinate k stands for k * tile_size / 2 = width * k / (2 * tile_count) px,
\* so tile_size * grid_x is coordinate 2 * grid_x: exact for every tile count.
LineElement(x1, y1, x2, y2, stroke, sw) ==
    [tag |-> "line", start |-> <<x1, y1>>, end |-> <<x2, y2>>,
     stroke |-> stroke, stroke_width |-> sw]

\* the two lines of pattern 0 (left-leaning) at tile (gx, gy)
LeftLines(gx, gy, stroke, sw) ==
    << LineElement(2 * gx, 2 * gy, 2 * gx + 1, 2 * gy + 2, stroke, sw),
       LineElement(2 * gx + 1, 2 * gy, 2 * gx + 2, 2 * gy + 2, stroke, sw) >>

\* the two lines of pattern 1 (right-leaning) at tile (gx, gy)
RightLines(gx, gy, stroke, sw) ==
    << LineElement(2 * gx, 2 * gy + 2, 2 * gx + 1, 2 * gy, stroke, sw),
       LineElement(2 * gx + 1, 2 * gy + 2, 2 * gx + 2, 2 * gy, stroke, sw) >>

\* TileLines with the two colours exchanged
TileLines_SwappedColors(toggle, gx, gy, cl, cr, sw) ==
    IF toggle = 0 THEN LeftLines(gx, gy, cr, sw) ELSE RightLines(gx, gy, cl, sw)

\* the elements one tile adds for a coin flip
TileLines(toggle, gx, gy, cl, cr, sw) ==
    IF toggle = 0 THEN LeftLines(gx, gy, cl, sw) ELSE RightLines(gx, gy, cr, sw)

BackgroundRect(w, h) ==
    [tag |-> "rect", insert |-> <<0, 0>>, size |-> <<w, h>>, fill |-> "white"]

StrokeWeight == 8

\* NextTile with the inner loop one column short: range(tile_count - 1)
NextTile_ShortRow(gy, gx, n) == IF gx + 1 < n - 1 THEN <<gy, gx + 1>> ELSE <<gy + 1, 0>>

\* the loop successor of (grid_y, grid_x) in the nested range(tile_count) loops
NextTile(gy, gx, n) == IF gx + 1 < n THEN <<gy, gx + 1>> ELSE <<gy + 1, 0>>

DiagSizes == {0, 600}
TileCounts == -1 .. MaxTiles
SeedArgs == {None} \cup {Some(s) : s \in Seeds}

InitCommon ==
    /\ rng \in 0 .. RngMod - 1
    /\ dwg = <<>>
    /\ files = <<>>
    /\ stdout = <<>>
    /\ err = "none"
    /\ filename = 0
    /\ calls = <<>>

IdleDiag ==
    /\ tile_count = 0 /\ random_seed = None
    /\ color_left = "" /\ color_right = ""
    /\ grid_x = 0 /\ grid_y = 0 /\ toggles = <<>>

IdleIcon ==
    /\ args = None /\ max_colors = 0 /\ colors = <<>> /\ palette0 = <<>>
    /\ shapes_arg = None /\ num_shapes = None /\ shapes_done = 0

\* DiagonalPatternGenerator(width, height); main passes the size for both.
InitDiagonal ==
    /\ InitCommon
    /\ pc = "idle"
    /\ width \in DiagSizes /\ height = width
    /\ IdleDiag /\ IdleIcon

\* A caller calls generate_pattern(filename, tile_count, stroke_weight, random_seed);
\* lines 105-106 draw the two colours from the stream as it stands.
GeneratePattern ==
    /\ pc = "idle"
    /\ Len(calls) < 2
    /\ \E t \in TileCounts, s \in SeedArgs :
          /\ tile_count' = t
          /\ random_seed' = s
    /\ filename' = Len(calls) + 1
    /\ color_left' = generate_random_color(rng)
    /\ color_right' = generate_random_color(AdvanceN(rng, 3))
    /\ rng' = AdvanceN(rng, 6)
    /\ dwg' = <<>>
    /\ toggles' = <<>>
    /\ grid_x' = 0 /\ grid_y' = 0
    /\ pc' = "gp_background"
    /\ UNCHANGED <<width, height, files, stdout, err, calls>>
    /\ UNCHANGED iconVars

\* lines 109-116: the drawing is created and the white background added.
AddBackground ==
    /\ pc = "gp_background"
    /\ dwg' = <<BackgroundRect(width, height)>>
    /\ pc' = "cdp_seed"
    /\ UNCHANGED <<rng, width, height, files, stdout, err, filename, calls>>
    /\ UNCHANGED diagVars
    /\ UNCHANGED iconVars

\* lines 52-55: seed when a seed is given, then tile_size = self.width / tile_count,
\* which raises ZeroDivisionError for a tile count of 0.
SeedAndTileSize ==
    /\ pc = "cdp_seed"
    /\ rng' = IF random_seed # None THEN SeedState(Value(random_seed)) ELSE rng
    /\ IF tile_count = 0
         THEN /\ pc' = "error"
              /\ err' = "ZeroDivisionError"
         ELSE /\ pc' = "cdp_tiles"
              /\ err' = err
    /\ UNCHANGED <<width, height, dwg, files, stdout, filename, calls>>
    /\ UNCHANGED diagVars
    /\ UNCHANGED iconVars

\* lines 57-99: one iteration of the nested loops: a coin flip, two lines added.
DrawTile ==
    /\ pc = "cdp_tiles"
    /\ grid_y < tile_count
    /\ LET toggle == RandInt(rng, 0, 1)
       IN  /\ toggles' = Append(toggles, toggle)
           /\ dwg' = dwg \o TileLines(toggle, grid_x, grid_y,
                                      color_left, color_right, StrokeWeight)
    /\ rng' = Advance(rng)
    /\ grid_y' = NextTile(grid_y, grid_x, tile_count)[1]
    /\ grid_x' = NextTile(grid_y, grid_x, tile_count)[2]
    /\ UNCHANGED <<pc, width, height, files, stdout, err, filename, calls>>
    /\ UNCHANGED <<tile_count, random_seed, color_left, color_right>>
    /\ UNCHANGED iconVars

\* lines 124-127: the loops are over; the drawing is saved, a line printed and
\* the call returns.
SavePattern ==
    /\ pc = "cdp_tiles"
    /\ ~(grid_y < tile_count)
    /\ files' = Append(files, [filename |-> filename, content |-> dwg])
    /\ stdout' = Append(stdout, [line |-> "Generated pattern", file |-> filename])
    /\ calls' = Append(calls, [filename |-> filename, tile_count |-> tile_count,
                               random_seed |-> random_seed,
                               color_left |-> color_left, color_right |-> color_right,
                               toggles |-> toggles, content |-> dwg])
    /\ pc' = "idle"
    /\ UNCHANGED <<rng, width, height, dwg, err, filename>>
    /\ UNCHANGED diagVars
    /\ UNCHANGED iconVars

NextDiagonal ==
    \/ GeneratePattern
    \/ AddBackground
    \/ SeedAndTileSize
    \/ DrawTile
    \/ SavePattern

SpecDiagonal == InitDiagonal /\ [][NextDiagonal]_vars

(***************************************************************************)
(* RandomSVGIconGenerator                                                  *)
(***************************************************************************)
Min(a, b) == IF a < b THEN a ELSE b
Range(seq) == {seq[i] : i \in DOMAIN seq}

\* random.random() drawn in state r, in tenths: the uniform draw to one decimal.
Random(r) == (10 * r) \div RngMod

\* random.uniform(a, b) = a + (b - a) * random(), with a, b and the result in
\* hundredths (b - a is a multiple of a tenth at every call site).
Uniform(r, a, b) == a + ((b - a) * Random(r)) \div 10

\* random.choice(seq) drawn in state r
Choice(r, seq) == seq[RandInt(r, 1, Len(seq))]

\* random.choice([True, False]) drawn in state r
ChoiceBool(r) == Choice(r, <<TRUE, FALSE>>)

\* colorsys._v(m1, m2, hue): hue in thirtieths, m1 and m2 in 1/10000; the result
\* in 1/300000.
HlsV(m1, m2, hue) ==
    LET hh == hue % 30
    IN  IF hh < 5 THEN m1 * 30 + (m2 - m1) * hh * 6
        ELSE IF hh < 15 THEN m2 * 30
        ELSE IF hh < 20 THEN m1 * 30 + (m2 - m1) * (20 - hh) * 6
        ELSE m1 * 30

\* colorsys.hls_to_rgb(h, l, s), each channel then int(c * 255): h in
\* thirtieths, l and s in hundredths.
HlsChannels(h, l, s) ==
    LET m2 == IF 2 * l <= 100 THEN l * (100 + s) ELSE 100 * l + 100 * s - l * s
        m1 == 200 * l - m2
    IN  IF s = 0 THEN <<(255 * l) \div 100, (255 * l) \div 100, (255 * l) \div 100>>
        ELSE << (255 * HlsV(m1, m2, h + 10)) \div 300000,
                (255 * HlsV(m1, m2, h)) \div 300000,
                (255 * HlsV(m1, m2, h - 10)) \div 300000 >>

\* PaletteSize with the upper end one too large: randint(1, max_colors + 1)
PaletteSize_OneMore(r, mc) == RandInt(r, 1, mc + 1)

\* line 29: num_colors = random.randint(1, self.max_colors), drawn in state r
PaletteSize(r, mc) == RandInt(r, 1, mc)

\* lines 36-46: colour i of the palette; base_hue was drawn in state rb, the
\* saturation and the lightness of colour i are draws 2i+1 and 2i+2 after it.
PaletteColor(rb, i) ==
    LET hue        == (3 * Random(rb) + 9 * i) % 30
        saturation == Uniform(AdvanceN(rb, 2 * i + 1), 60, 100)
        lightness  == Uniform(AdvanceN(rb, 2 * i + 2), 30, 80)
    IN  HexColor(HlsChannels(hue, lightness, saturation))

\* generate_color_palette drawn from state r: the palette and the state after,
\* or the ValueError of random.randint(1, max_colors) on an empty range.
generate_color_palette(r, mc) ==
    IF EmptyRange(1, mc) THEN [ok |-> FALSE, rng |-> r]
    ELSE LET n == PaletteSize(r, mc)
         IN  [ok |-> TRUE,
              colors |-> [i \in 1 .. n |-> PaletteColor(Advance(r), i - 1)],
              rng |-> AdvanceN(r, 2 + 2 * n)]

\* get_random_color drawn in state r
get_random_color(r, cols) == Choice(r, cols)

\* The style draws every create_* makes from state r: the fill, whether there is
\* a stroke, and then only with a stroke its colour and its width.
Style(r, cols) ==
    LET fill      == get_random_color(r, cols)
        hasStroke == ChoiceBool(Advance(r))
        r2        == AdvanceN(r, 2)
    IN  IF hasStroke
          THEN [fill |-> fill, stroke |-> get_random_color(r2, cols),
                stroke_width |-> RandInt(Advance(r2), 1, 5), rng |-> AdvanceN(r2, 2)]
          ELSE [fill |-> fill, stroke |-> "none", stroke_width |-> 0, rng |-> r2]

\* An element of the icon; geom is the geometry of its kind, transform is <<>> or
\* the <<angle, x, y>> of "rotate(angle x y)", opacity is in hundredths.
Shape(tag, geom, st, transform, opacity) ==
    [tag |-> tag, geom |-> geom, fill |-> st.fill, stroke |-> st.stroke,
     stroke_width |-> st.stroke_width, transform |-> transform, opacity |-> opacity]

Raised(r) == [ok |-> FALSE, rng |-> r]

\* lines 52-69
create_circle(r, w, h, cols) ==
    LET hi == Min(w, h) \div 4
        st == Style(AdvanceN(r, 3), cols)
    IN  IF EmptyRange(0, w) \/ EmptyRange(0, h) \/ EmptyRange(10, hi) THEN Raised(r)
        ELSE [ok |-> TRUE,
              elem |-> Shape("circle",
                             [center |-> <<RandInt(r, 0, w), RandInt(Advance(r), 0, h)>>,
                              r |-> RandInt(AdvanceN(r, 2), 10, hi)],
                             st, <<>>, Uniform(st.rng, 70, 100)),
              rng |-> Advance(st.rng)]

\* lines 86-88: the pivot of the rectangle's rotation
RectPivot(x, y, rw, rh) == <<x + rw \div 2, y + rh \div 2>>

\* lines 71-102
create_rectangle(r, w, h, cols) ==
    LET x  == RandInt(r, 0, w \div 2)
        y  == RandInt(Advance(r), 0, h \div 2)
        rw == RandInt(AdvanceN(r, 2), 20, w - x)
        rh == RandInt(AdvanceN(r, 3), 20, h - y)
        st == Style(AdvanceN(r, 4), cols)
        rotated == ChoiceBool(st.rng)
        angle == RandInt(Advance(st.rng), -45, 45)
        ro == IF rotated THEN AdvanceN(st.rng, 2) ELSE Advance(st.rng)
    IN  IF EmptyRange(0, w \div 2) \/ EmptyRange(0, h \div 2) THEN Raised(r)
        ELSE IF EmptyRange(20, w - x) \/ EmptyRange(20, h - y) THEN Raised(r)
        ELSE [ok |-> TRUE,
              elem |-> Shape("rect",
                             [insert |-> <<x, y>>, size |-> <<rw, rh>>],
                             st,
                             IF rotated THEN <<angle>> \o RectPivot(x, y, rw, rh) ELSE <<>>,
                             Uniform(ro, 70, 100)),
              rng |-> Advance(ro)]

\* lines 104-122
create_triangle(r, w, h, cols) ==
    LET st == Style(AdvanceN(r, 6), cols)
    IN  IF EmptyRange(0, w) \/ EmptyRange(0, h) THEN Raised(r)
        ELSE [ok |-> TRUE,
              elem |-> Shape("polygon",
                             [points |-> [i \in 1 .. 3 |->
                                            <<RandInt(AdvanceN(r, 2 * i - 2), 0, w),
                                              RandInt(AdvanceN(r, 2 * i - 1), 0, h)>>]],
                             st, <<>>, Uniform(st.rng, 70, 100)),
              rng |-> Advance(st.rng)]

\* lines 124-149.  A vertex is kept in polar form about the centre: vertex i is
\* <<i, radius * radius_variation>> (the latter in hundredths), at the angle
\* 2 pi i / num_sides.
create_polygon(r, w, h, cols) ==
    LET num_sides == RandInt(r, 4, 8)
        center_x  == RandInt(Advance(r), 50, w - 50)
        center_y  == RandInt(AdvanceN(r, 2), 50, h - 50)
        radius    == RandInt(AdvanceN(r, 3), 20, 80)
        st        == Style(AdvanceN(r, 4 + num_sides), cols)
    IN  IF EmptyRange(50, w - 50) \/ EmptyRange(50, h - 50) THEN Raised(r)
        ELSE [ok |-> TRUE,
              elem |-> Shape("polygon",
                             [center |-> <<center_x, center_y>>,
                              points |-> [i \in 1 .. num_sides |->
                                            <<i - 1,
                                              radius * Uniform(AdvanceN(r, 3 + i), 70, 130)>>]],
                             st, <<>>, Uniform(st.rng, 70, 100)),
              rng |-> Advance(st.rng)]

\* line 166: the pivot of the ellipse's rotation
EllipsePivot(cx, cy) == <<cx, cy>>

\* lines 151-180
create_ellipse(r, w, h, cols) ==
    LET cx == RandInt(r, 0, w)
        cy == RandInt(Advance(r), 0, h)
        rx == RandInt(AdvanceN(r, 2), 15, w \div 4)
        ry == RandInt(AdvanceN(r, 3), 15, h \div 4)
        st == Style(AdvanceN(r, 4), cols)
        rotated == ChoiceBool(st.rng)
        angle == RandInt(Advance(st.rng), 0, 180)
        ro == IF rotated THEN AdvanceN(st.rng, 2) ELSE Advance(st.rng)
    IN  IF EmptyRange(0, w) \/ EmptyRange(0, h) THEN Raised(r)
        ELSE IF EmptyRange(15, w \div 4) \/ EmptyRange(15, h \div 4) THEN Raised(r)
        ELSE [ok |-> TRUE,
              elem |-> Shape("ellipse",
                             [center |-> <<cx, cy>>, r |-> <<rx, ry>>],
                             st,
                             IF rotated THEN <<angle>> \o EllipsePivot(cx, cy) ELSE <<>>,
                             Uniform(ro, 70, 100)),
              rng |-> Advance(ro)]

\* line 25
shapes == <<"circle", "rectangle", "triangle", "polygon", "ellipse">>

\* lines 182-192
create_shape(r, shape_type, w, h, cols) ==
    CASE shape_type = "circle"    -> create_circle(r, w, h, cols)
      [] shape_type = "rectangle" -> create_rectangle(r, w, h, cols)
      [] shape_type = "triangle"  -> create_triangle(r, w, h, cols)
      [] shape_type = "polygon"   -> create_polygon(r, w, h, cols)
      [] OTHER                    -> create_ellipse(r, w, h, cols)

\* lines 205-210: the background rectangle, its colour drawn in state r and its
\* opacity in the state after
IconBackground(r, w, h, cols) ==
    [tag |-> "rect", geom |-> [insert |-> <<0, 0>>, size |-> <<w, h>>],
     fill |-> get_random_color(r, cols), opacity |-> Uniform(Advance(r), 10, 30)]

\* line 214: num_shapes = random.randint(2, 8), drawn in state r
RandomShapeCount(r) == RandInt(r, 2, 8)

IconSizes == {0, 30, 50, 90, 200}
MaxColorArgs == 0 .. 5
ShapeArgs == {None} \cup {Some(k) : k \in -1 .. MaxShapesArg}

InitIcon ==
    /\ InitCommon
    /\ pc = "start"
    /\ width = 0 /\ height = 0
    /\ IdleDiag /\ IdleIcon

\* lines 229-241 of main: the arguments are parsed.
MainParseArgs ==
    /\ pc = "start"
    /\ \E n \in 1 .. MaxIcons, sz \in IconSizes, mc \in MaxColorArgs, sh \in ShapeArgs :
          args' = Some([num_icons |-> n, size |-> sz, max_colors |-> mc, shapes |-> sh])
    /\ pc' = "main_create"
    /\ UNCHANGED <<rng, width, height, dwg, files, stdout, err, filename, calls>>
    /\ UNCHANGED diagVars
    /\ UNCHANGED <<max_colors, colors, palette0, shapes_arg, num_shapes, shapes_done>>

\* line 244 of main: the name SVGIconGenerator is bound nowhere in the module (the
\* class is RandomSVGIconGenerator), so evaluating it raises NameError: the
\* statements of main after it are never reached.
MainCreateGenerator ==
    /\ pc = "main_create"
    /\ pc' = "error"
    /\ err' = "NameError"
    /\ UNCHANGED <<rng, width, height, dwg, files, stdout, filename, calls>>
    /\ UNCHANGED diagVars
    /\ UNCHANGED iconVars

\* lines 20-25: a caller constructs RandomSVGIconGenerator(width, height, max_colors).
Construct ==
    /\ pc = "start"
    /\ \E sz \in IconSizes : width' = sz /\ height' = sz
    /\ max_colors' \in MaxColorArgs
    /\ colors' = <<>>
    /\ pc' = "idle"
    /\ UNCHANGED <<rng, dwg, files, stdout, err, filename, calls>>
    /\ UNCHANGED diagVars
    /\ UNCHANGED <<args, palette0, shapes_arg, num_shapes, shapes_done>>

\* lines 194-200: generate_icon(filename, num_shapes) creates the drawing and
\* generates the palette.
GenerateIcon ==
    /\ pc = "idle"
    /\ calls = <<>>
    /\ shapes_arg' \in ShapeArgs
    /\ num_shapes' = shapes_arg'
    /\ filename' = 1
    /\ dwg' = <<>>
    /\ shapes_done' = 0
    /\ LET pal == generate_color_palette(rng, max_colors)
       IN  /\ rng' = pal.rng
           /\ IF pal.ok
                THEN /\ colors' = pal.colors
                     /\ palette0' = pal.colors
                     /\ pc' = "gi_background"
                     /\ err' = err
                ELSE /\ colors' = <<>>
                     /\ palette0' = <<>>
                     /\ pc' = "error"
                     /\ err' = "ValueError"
    /\ UNCHANGED <<width, height, files, stdout, calls>>
    /\ UNCHANGED diagVars
    /\ UNCHANGED <<args, max_colors>>

\* lines 203-210: the background, sometimes.
MaybeBackground ==
    /\ pc = "gi_background"
    /\ IF ChoiceBool(rng)
         THEN /\ dwg' = Append(dwg, IconBackground(Advance(rng), width, height, colors))
              /\ rng' = AdvanceN(rng, 3)
         ELSE /\ dwg' = dwg
              /\ rng' = Advance(rng)
    /\ pc' = "gi_count"
    /\ UNCHANGED <<width, height, files, stdout, err, filename, calls>>
    /\ UNCHANGED diagVars
    /\ UNCHANGED <<args, max_colors, colors, palette0, shapes_arg, num_shapes, shapes_done>>

\* lines 213-214: the number of shapes, drawn when none was given.
DetermineShapeCount ==
    /\ pc = "gi_count"
    /\ IF num_shapes = None
         THEN /\ num_shapes' = Some(RandomShapeCount(rng))
              /\ rng' = Advance(rng)
         ELSE /\ num_shapes' = num_shapes
              /\ rng' = rng
    /\ pc' = "gi_shapes"
    /\ UNCHANGED <<width, height, dwg, files, stdout, err, filename, calls>>
    /\ UNCHANGED diagVars
    /\ UNCHANGED <<args, max_colors, colors, palette0, shapes_arg, shapes_done>>

\* lines 217-220: one iteration of the loop: a shape kind is drawn, the shape
\* created and added; a ValueError of a draw on an empty range ends the call.
AddShape ==
    /\ pc = "gi_shapes"
    /\ shapes_done < Value(num_shapes)
    /\ LET shape_type == Choice(rng, shapes)
           made == create_shape(Advance(rng), shape_type, width, height, colors)
       IN  /\ rng' = made.rng
           /\ IF made.ok
                THEN /\ dwg' = Append(dwg, made.elem)
                     /\ shapes_done' = shapes_done + 1
                     /\ pc' = pc
                     /\ err' = err
                ELSE /\ dwg' = dwg
                     /\ shapes_done' = shapes_done
                     /\ pc' = "error"
                     /\ err' = "ValueError"
    /\ UNCHANGED <<width, height, files, stdout, filename, calls>>
    /\ UNCHANGED diagVars
    /\ UNCHANGED <<args, max_colors, colors, palette0, shapes_arg, num_shapes>>

\* lines 222-225: the loop is over; the drawing is saved, a line printed and the
\* call returns.
SaveIcon ==
    /\ pc = "gi_shapes"
    /\ ~(shapes_done < Value(num_shapes))
    /\ files' = Append(files, [filename |-> filename, content |-> dwg])
    /\ stdout' = Append(stdout, [line |-> "Generated icon", file |-> filename])
    /\ calls' = Append(calls, [filename |-> filename, shapes_arg |-> shapes_arg,
                               num_shapes |-> num_shapes, colors |-> colors,
                               content |-> dwg])
    /\ pc' = "idle"
    /\ UNCHANGED <<rng, width, height, dwg, err, filename>>
    /\ UNCHANGED diagVars
    /\ UNCHANGED iconVars

NextIcon ==
    \/ MainParseArgs
    \/ MainCreateGenerator
    \/ Construct
    \/ GenerateIcon
    \/ MaybeBackground
    \/ DetermineShapeCount
    \/ AddShape
    \/ SaveIcon

SpecIcon == InitIcon /\ [][NextIcon]_vars

(***************************************************************************)
(* Properties of the diagonal generator, under SpecDiagonal.               *)
(***************************************************************************)
Count(doc, tag) == Cardinality({i \in DOMAIN doc : doc[i].tag = tag})

\* the save step of generate_pattern is next
AtSavePattern == pc = "cdp_tiles" /\ ~(grid_y < tile_count)

\* C1: two calls of generate_pattern with the same seed and the same tile count
\* T >= 1 produce identical documents: the same color_left, the same color_right
\* and the same sequence of tile toggles.
C1_SeededCallsIdentical ==
    \A i, j \in DOMAIN calls :
        ( /\ calls[i].random_seed # None
          /\ calls[i].random_seed = calls[j].random_seed
          /\ calls[i].tile_count = calls[j].tile_count
          /\ calls[i].tile_count >= 1
          /\ width > 0 /\ height > 0 )
        => /\ calls[i].color_left = calls[j].color_left
           /\ calls[i].color_right = calls[j].color_right
           /\ calls[i].toggles = calls[j].toggles
           /\ files[i].content = files[j].content

\* C2: for every tile count T >= 1, when generate_pattern reaches the save step
\* the document holds exactly 1 rectangle and exactly 2*T*T lines, two per tile
\* decision, whatever the coin flips were.
C2_ElementCounts ==
    (AtSavePattern /\ tile_count >= 1)
    => /\ Count(dwg, "rect") = 1
       /\ Count(dwg, "line") = 2 * tile_count * tile_count
       /\ Len(toggles) = tile_count * tile_count
       /\ Len(dwg) = 1 + 2 * Len(toggles)

\* C2's case: the save step is reached with the largest tile count after both
\* outcomes of the coin flip.
C2_Witness ==
    /\ AtSavePattern
    /\ tile_count = MaxTiles
    /\ {0, 1} \subseteq Range(toggles)

\* C3: no output file exists after a call of generate_pattern with a tile count
\* <= 0 or a canvas size <= 0 (such a call ends in an error before the save step).
C3_NoFileForInvalidCall ==
    \A i \in DOMAIN files : calls[i].tile_count > 0 /\ width > 0 /\ height > 0

\* the tile a pair of lines at index k of the tile sequence belongs to, and what
\* the lines of a tile look like: the first spans the left half of the tile and
\* the second the right half, both from the top of the tile to its bottom
SpansTile(l1, l2, gx, gy) ==
    /\ {l1.start[1], l1.end[1]} = {2 * gx, 2 * gx + 1}
    /\ {l2.start[1], l2.end[1]} = {2 * gx + 1, 2 * gx + 2}
    /\ {l1.start[2], l1.end[2]} = {2 * gy, 2 * gy + 2}
    /\ {l2.start[2], l2.end[2]} = {2 * gy, 2 * gy + 2}

\* C9: in every document written the background rectangle is the first element
\* and the tiles follow in row-major order, each contributing its two lines
\* consecutively, both stroked in color_left when the tile's coin flip is 0 and
\* in color_right when it is 1; a 0 tile leans left (its lines start at the top
\* of the tile), a 1 tile leans right (its lines start at the bottom).
C9_OrderAndColoring ==
    \A i \in DOMAIN files :
        LET doc == files[i].content
            c   == calls[i]
            T   == c.tile_count
        IN  /\ Len(doc) >= 1
            /\ doc[1].tag = "rect"
            /\ \A k \in DOMAIN c.toggles :
                  LET gy  == (k - 1) \div T
                      gx  == (k - 1) % T
                      l1  == doc[2 * k]
                      l2  == doc[2 * k + 1]
                      col == IF c.toggles[k] = 0 THEN c.color_left ELSE c.color_right
                      top == IF c.toggles[k] = 0 THEN 2 * gy ELSE 2 * gy + 2
                  IN  /\ 2 * k + 1 <= Len(doc)
                      /\ l1.tag = "line" /\ l2.tag = "line"
                      /\ l1.stroke = col /\ l2.stroke = col
                      /\ SpansTile(l1, l2, gx, gy)
                      /\ l1.start[2] = top /\ l2.start[2] = top
            /\ Len(doc) = 1 + 2 * Len(c.toggles)
            /\ T >= 1 => Len(c.toggles) = T * T

\* C9's case: a document of the largest tile count with tiles of both kinds,
\* drawn in two different colours, has been written.
C9_Witness ==
    \E i \in DOMAIN files :
        /\ calls[i].tile_count = MaxTiles
        /\ {0, 1} \subseteq Range(calls[i].toggles)
        /\ calls[i].color_left # calls[i].color_right
        /\ Len(files[i].content) = 1 + 2 * MaxTiles * MaxTiles

(***************************************************************************)
(* Properties of the icon generator, under SpecIcon.                       *)
(***************************************************************************)
\* the background of an icon carries no stroke; every shape does
IsShape(e) == "stroke" \in DOMAIN e
IsIconBackground(e) == ~IsShape(e) /\ e.tag = "rect"

\* the palette of the running (or returned) generate_icon call has been generated
PaletteGenerated == palette0 # <<>>

\* a generate_icon call on valid input: a positive canvas, max_colors in [1,4],
\* no shape count or one >= 1
ValidIconCall ==
    /\ args = None
    /\ pc \notin {"start", "idle"} \/ calls # <<>>
    /\ width > 0 /\ height > 0
    /\ max_colors \in 1 .. 4
    /\ shapes_arg = None \/ Value(shapes_arg) >= 1

\* a generate_icon call on invalid input
InvalidIconCall ==
    /\ args = None
    /\ pc \notin {"start", "idle"} \/ calls # <<>>
    /\ \/ max_colors \notin 1 .. 4
       \/ width <= 0 \/ height <= 0
       \/ shapes_arg # None /\ Value(shapes_arg) <= 0

\* C4: no output file exists after a call of generate_icon on a generator whose
\* max_colors is outside [1,4] or whose canvas size is <= 0, or with an explicit
\* shape count <= 0 (such a call ends in an error before the save step).
C4_NoFileForInvalidCall == InvalidIconCall => files = <<>>

\* C5: for every max_colors in [1,4], once generate_color_palette has run the
\* palette has between 1 and max_colors entries, it is the same palette for the
\* rest of the call, and the fill of every element added (the background's too)
\* and the stroke of every shape that has one is an element of that palette (a
\* shape without a stroke carries 'none').
C5_PaletteClosure ==
    (max_colors \in 1 .. 4 /\ PaletteGenerated)
    => /\ Len(colors) \in 1 .. max_colors
       /\ colors = palette0
       /\ \A e \in Range(dwg) :
             /\ e.fill \in Range(colors)
             /\ IsShape(e) => e.stroke \in Range(colors) \cup {"none"}
             /\ IsShape(e) => (e.stroke = "none" <=> e.stroke_width = 0)
       /\ \A i \in DOMAIN files : files[i].content = dwg

\* C5's case: an icon with a background, a stroked shape and a shape without a
\* stroke has been written from a palette of more than one colour.
C5_Witness ==
    /\ max_colors \in 1 .. 4
    /\ Len(colors) > 1
    /\ files # <<>>
    /\ \E e \in Range(files[1].content) : IsIconBackground(e)
    /\ \E e \in Range(files[1].content) : IsShape(e) /\ e.stroke # "none"
    /\ \E e \in Range(files[1].content) : IsShape(e) /\ e.stroke = "none"

\* C6: whenever a rectangle carries a rotate transform its pivot is the
\* rectangle's geometric centre (x + width/2, y + height/2), odd widths and
\* heights included, and whenever an ellipse carries one its pivot is the
\* ellipse's centre (cx, cy).  (Stated on the doubles, to stay in the integers.)
C6_PivotIsCenter ==
    \A e \in Range(dwg) :
        (IsShape(e) /\ e.transform # <<>>)
        => IF e.tag = "rect"
             THEN /\ 2 * e.transform[2] = 2 * e.geom.insert[1] + e.geom.size[1]
                  /\ 2 * e.transform[3] = 2 * e.geom.insert[2] + e.geom.size[2]
             ELSE /\ e.tag = "ellipse"
                  /\ <<e.transform[2], e.transform[3]>> = e.geom.center

\* the arguments of a run of main are valid: a canvas large enough for every
\* shape, max_colors in [1,4], no shape count or one >= 1
ValidMainArgs ==
    /\ args # None
    /\ Value(args).num_icons >= 1
    /\ Value(args).size >= 100
    /\ Value(args).max_colors \in 1 .. 4
    /\ Value(args).shapes = None \/ Value(Value(args).shapes) >= 1

\* the run of main is over
MainEnded == args # None /\ pc \in {"main_done", "error"}

\* C7: a run of the icon generator's main with valid arguments and n >= 1 icons
\* ends having written exactly n files, in index order, with one line printed
\* per file and the summary after them.
C7_MainWritesNFiles ==
    (ValidMainArgs /\ MainEnded)
    => /\ err = "none"
       /\ Len(files) = Value(args).num_icons
       /\ \A i \in DOMAIN files : files[i].filename = i
       /\ Len(stdout) > Len(files)

\* C8: on valid input generate_icon raises nothing: no draw range of a shape
\* constructor is empty.
C8_ValidCallNeverRaises == ValidIconCall => err = "none"

\* C10: every document written by generate_icon holds at most one background
\* rectangle, first when present, and after it exactly k shapes, k being the
\* shape count passed when one is passed and otherwise a value in [2,8].
C10_DocumentStructure ==
    \A i \in DOMAIN files :
        LET doc == files[i].content
            c   == calls[i]
            nb  == Cardinality({j \in DOMAIN doc : IsIconBackground(doc[j])})
            k   == IF c.shapes_arg # None THEN Value(c.shapes_arg)
                   ELSE Value(c.num_shapes)
        IN  /\ nb <= 1
            /\ \A j \in DOMAIN doc : IsIconBackground(doc[j]) => j = 1
            /\ Len(doc) - nb = k
            /\ c.shapes_arg = None => k \in 2 .. 8
====
